---- MODULE Spec2Model ----
(***************************************************************************)
(* Model of streamlit_app.py: the employee directory.                      *)
(*                                                                         *)
(* Text is a sequence of one-character strings, so that sanitising,        *)
(* formatting, splitting and pattern matching are computed character by    *)
(* character as the Python code computes them.  The store is the employees *)
(* table (in rowid order), SQLite's AUTOINCREMENT counter and the photo    *)
(* folder.  Every user interaction is one run of main().                   *)
(***************************************************************************)
EXTENDS Integers, Sequences, FiniteSets

VARIABLES
    employees,   \* rows of table employees, in rowid order
    seq,         \* sqlite_sequence entry of the table: largest id ever assigned
    files,       \* photo folder: function from path to the bytes stored there
    shown,       \* messages emitted by the last run of the script
    displayed,   \* ids of the cards drawn by the last Public View run
    op,          \* the last interaction: the widget values and what it observed
    assigned,    \* history: every id an INSERT has ever been given
    fileFailure  \* history: some file deletion has failed

vars == <<employees, seq, files, shown, displayed, op, assigned, fileFailure>>

----------------------------------------------------------------------------
(* Bounds *)

\* INSERTs performed in one behaviour (caps the AUTOINCREMENT counter)
MaxSeq == 2

----------------------------------------------------------------------------
(* Configuration *)

ADMIN_PASSWORD == "admin"

IMAGE_FOLDER ==
    <<"e","m","p","l","o","y","e","e","_","p","h","o","t","o","s">>

\* the only directory under which open() can create a file: the folder made
\* at start-up
Directories == {IMAGE_FOLDER}

----------------------------------------------------------------------------
(* Text helpers *)

Letters == {"a","b","g","i","j","l","p","t","A","B","I","T"}
Digits == {"1","2"}

\* str.isalpha() or str.isdigit() on one character
IsAlnum(c) == c \in Letters \cup Digits

IsSpace(c) == c = " "

\* str.lower() on one character
Lower(c) ==
    CASE c = "A" -> "a"
      [] c = "B" -> "b"
      [] c = "I" -> "i"
      [] c = "T" -> "t"
      [] OTHER -> c

Max(S) == CHOOSE x \in S : \A y \in S : y <= x

\* str.rstrip()
RECURSIVE RStrip(_)
RStrip(s) ==
    IF s # <<>> /\ IsSpace(s[Len(s)]) THEN RStrip(SubSeq(s, 1, Len(s) - 1))
    ELSE s

\* positions of character c in s
Positions(s, c) == {i \in 1..Len(s) : s[i] = c}

\* s.split(".")[-1]
SplitLast(s, c) ==
    IF Positions(s, c) = {} THEN s
    ELSE SubSeq(s, Max(Positions(s, c)) + 1, Len(s))

\* os.path.dirname
Dirname(p) ==
    IF Positions(p, "/") = {} THEN <<>>
    ELSE SubSeq(p, 1, Max(Positions(p, "/")) - 1)

\* os.path.join(a, b) for a relative b
PathJoin(a, b) == a \o <<"/">> \o b

----------------------------------------------------------------------------
(* Pattern matching of pandas' Series.str.contains *)

\* One pattern character of Python's re against one character of text.
\* Modelled for patterns made of letters, digits, blanks and ".": "." is the
\* wildcard (any character but a newline), every other one stands for itself.
RegexCharMatch(p, c, ignorecase) ==
    IF p = "." THEN c # "\n"
    ELSE IF ignorecase THEN Lower(p) = Lower(c)
    ELSE p = c

\* re.compile(pat, flags).search(text) is not None
RegexSearch(pat, text, ignorecase) ==
    \E i \in 0..(Len(text) - Len(pat)) :
        \A j \in 1..Len(pat) : RegexCharMatch(pat[j], text[i + j], ignorecase)

\* variant: case=True
StrContainsCaseSensitive(text, pat) == RegexSearch(pat, text, FALSE)

\* text.str.contains(pat, case=False, na=False): regex=True is the default
StrContains(text, pat) == RegexSearch(pat, text, TRUE)

\* the mask of the Public View
SearchMask(row, search) ==
    StrContains(row.name, search) \/ StrContains(row.domain, search)

\* the rows the Public View draws
FilterRows(emps, search) ==
    IF search # <<>> THEN SelectSeq(emps, LAMBDA r : SearchMask(r, search))
    ELSE emps

----------------------------------------------------------------------------
(* Database functions *)

Ids(emps) == {emps[i].id : i \in 1..Len(emps)}

\* variant: a plain INTEGER PRIMARY KEY, one more than the largest id present
NextIdMaxRowid(emps, s) == Max({0} \cup Ids(emps)) + 1

\* id INTEGER PRIMARY KEY AUTOINCREMENT: one more than the largest id the
\* table has ever held
NextId(emps, s) == Max({s} \cup Ids(emps)) + 1

\* INSERT INTO employees (...) VALUES (...)
add_employee(emps, s, name, email, phone, domain, linkedin, photo_path) ==
    Append(emps, [id |-> NextId(emps, s), name |-> name, email |-> email,
                  phone |-> phone, domain |-> domain, linkedin |-> linkedin,
                  photo_path |-> photo_path])

\* SELECT photo_path FROM employees WHERE id=? ; fetchone(): <<>> is None
SelectPhotoPath(emps, emp_id) ==
    LET hit == SelectSeq(emps, LAMBDA r : r.id = emp_id)
    IN IF hit = <<>> THEN <<>> ELSE <<hit[1].photo_path>>

\* variant: the row is picked by its position in the listing, not by its id
DeleteRowByPosition(emps, emp_id) ==
    IF emp_id \in 1..Len(emps)
    THEN [i \in 1..(Len(emps) - 1) |-> IF i < emp_id THEN emps[i] ELSE emps[i + 1]]
    ELSE emps

\* variant: the DELETE is never committed
DeleteRowNoCommit(emps, emp_id) == emps

\* DELETE FROM employees WHERE id=? ; commit
DeleteRow(emps, emp_id) == SelectSeq(emps, LAMBDA r : r.id # emp_id)

\* variant: the file is left in place
os_remove_nothing(fs, path) == fs

\* os.remove(path) when it succeeds
os_remove(fs, path) == [p \in DOMAIN fs \ {path} |-> fs[p]]

\* open(path, "wb").write(data) when it succeeds
write_file(fs, path, data) ==
    [p \in DOMAIN fs \cup {path} |-> IF p = path THEN data ELSE fs[p]]

\* open(path, "wb") finds the directory of path
CanOpenForWrite(path) == Dirname(path) \in Directories

\* variant: os.remove is not guarded, its exception ends the function
delete_employee_unguarded(emps, fs, emp_id, removeFails) ==
    LET result == SelectPhotoPath(emps, emp_id)
        attempt == result # <<>> /\ result[1] # <<>> /\ result[1] \in DOMAIN fs
        failed == attempt /\ removeFails
    IN [employees |-> IF failed THEN emps ELSE DeleteRow(emps, emp_id),
        files |-> IF attempt /\ ~failed THEN os_remove(fs, result[1]) ELSE fs,
        found |-> result # <<>>,
        hadFile |-> attempt,
        rmFailed |-> failed,
        warned |-> FALSE]

\* delete_employee(emp_id); removeFails: os.remove raises when it is called
delete_employee(emps, fs, emp_id, removeFails) ==
    LET result == SelectPhotoPath(emps, emp_id)
        attempt == result # <<>> /\ result[1] # <<>> /\ result[1] \in DOMAIN fs
        failed == attempt /\ removeFails
    IN [employees |-> DeleteRow(emps, emp_id),
        files |-> IF attempt /\ ~failed THEN os_remove(fs, result[1]) ELSE fs,
        found |-> result # <<>>,
        hadFile |-> attempt,
        rmFailed |-> failed,
        warned |-> failed]

\* get_all_employees(): SELECT * FROM employees
get_all_employees(emps) == emps

----------------------------------------------------------------------------
(* Widget values *)

Names == {<<>>, <<"A","b">>, <<"a",".">>}
Emails == {<<>>, <<"b","@","t">>}

\* the three optional fields: all left blank, all filled in, and filled in
\* with a path separator in the phone number
ContactDetails ==
    {[phone |-> <<>>, domain |-> <<>>, linkedin |-> <<>>],
     [phone |-> <<"1">>, domain |-> <<"I","T">>, linkedin |-> <<"l","i">>],
     [phone |-> <<"1","/","2">>, domain |-> <<"I","T">>,
      linkedin |-> <<"l","i">>]}

\* st.file_uploader(type=['jpg','png','jpeg']): <<>> is None, else one
\* uploaded file with its name and its bytes
Photos ==
    {<<>>, <<[name |-> <<"b",".","a",".","j","p","g">>, data |-> 1]>>}

Forms ==
    {[name |-> n, email |-> e, phone |-> c.phone, domain |-> c.domain,
      linkedin |-> c.linkedin, photo |-> ph] :
        n \in Names, e \in Emails, c \in ContactDetails, ph \in Photos}

Passwords == {"", "admin", "Admin"}

Searches == {<<>>, <<"a","B">>, <<"t">>, <<".">>}

EmpIds == 1..MaxSeq

----------------------------------------------------------------------------
(* Messages *)

MsgNoEmployees == "No employees found in the database."
MsgAuthOk == "Authentication Successful"
MsgAdded == "Employee added successfully!"
MsgRequired == "Name, Email, and Photo are required."
MsgDeleted == "Employee record deleted."
MsgCouldNotDelete == "Could not delete image file"
MsgDbEmpty == "Database is empty."
MsgIncorrect == "Incorrect Password"
MsgEnterPassword == "Please enter the password in the sidebar"
MsgException == "uncaught exception"

----------------------------------------------------------------------------
(* main() *)

\* variant: any entered password opens the portal
AuthenticatedNonEmpty(password) == password # ""

\* password == ADMIN_PASSWORD
Authenticated(password) == password = ADMIN_PASSWORD

\* variant: the email is not required
FormAcceptedNoEmail(form) == form.name # <<>> /\ form.photo # <<>>

\* if name and email and photo
FormAccepted(form) ==
    form.name # <<>> /\ form.email # <<>> /\ form.photo # <<>>

\* "".join([c for c in name if c.isalpha() or c.isdigit()]).rstrip()
SafeName(name) == RStrip(SelectSeq(name, IsAlnum))

\* photo.name.split(".")[-1]
FileExt(photo) == SplitLast(photo[1].name, ".")

\* os.path.join(IMAGE_FOLDER, f"{safe_name}_{phone}.{file_ext}")
SavePath(form) ==
    PathJoin(IMAGE_FOLDER,
             SafeName(form.name) \o <<"_">> \o form.phone \o <<".">>
                 \o FileExt(form.photo))

\* f"{row['name']} | {row['domain']}"
Label(row) == row.name \o <<" ","|"," ">> \o row.domain

\* {label: id for each row}: a later row replaces an earlier one's entry
EmpOptions(emps) ==
    [l \in {Label(emps[i]) : i \in 1..Len(emps)} |->
        emps[Max({i \in 1..Len(emps) : Label(emps[i]) = l})].id]

\* what the Remove tab emits when nothing is clicked
RemoveTabMessages(emps) ==
    IF get_all_employees(emps) # <<>> THEN {} ELSE {MsgDbEmpty}

\* the run that st.rerun() starts: same menu and password, nothing clicked
RerunMessages(emps) == {MsgAuthOk} \cup RemoveTabMessages(emps)

NoOp ==
    [kind |-> "init", menu |-> "", password |-> "", search |-> <<>>,
     form |-> <<>>, selected |-> <<>>, emp_id |-> 0, accepted |-> FALSE,
     wrote |-> FALSE, found |-> FALSE, hadFile |-> FALSE, rmFailed |-> FALSE]

Init ==
    /\ employees = <<>>
    /\ seq = 0
    /\ files = <<>>
    /\ shown = {}
    /\ displayed = <<>>
    /\ op = NoOp
    /\ assigned = {}
    /\ fileFailure = FALSE

\* menu == "Public View"
PublicView(search) ==
    LET df == get_all_employees(employees)
        rows == FilterRows(df, search)
    IN /\ df = <<>> => search = <<>>
       /\ shown' = IF df = <<>> THEN {MsgNoEmployees} ELSE {}
       /\ displayed' = [i \in 1..Len(rows) |-> rows[i].id]
       /\ op' = [NoOp EXCEPT !.kind = "public", !.menu = "Public View",
                             !.search = search]
       /\ UNCHANGED <<employees, seq, files, assigned, fileFailure>>

\* menu == "Admin Portal", password is not the admin password
AdminDenied(password) ==
    /\ ~Authenticated(password)
    /\ shown' = IF password # "" THEN {MsgIncorrect} ELSE {MsgEnterPassword}
    /\ op' = [NoOp EXCEPT !.kind = "denied", !.menu = "Admin Portal",
                          !.password = password]
    /\ UNCHANGED <<employees, seq, files, displayed, assigned, fileFailure>>

\* menu == "Admin Portal", authenticated, nothing submitted or clicked
AdminIdle(password) ==
    /\ Authenticated(password)
    /\ shown' = RerunMessages(employees)
    /\ op' = [NoOp EXCEPT !.kind = "idle", !.menu = "Admin Portal",
                          !.password = password]
    /\ UNCHANGED <<employees, seq, files, displayed, assigned, fileFailure>>

\* menu == "Admin Portal", authenticated, "Save Record" submitted
AdminAdd(password, form) ==
    LET save_path == SavePath(form)
        added == add_employee(employees, seq, form.name, form.email,
                              form.phone, form.domain, form.linkedin, save_path)
        base == [NoOp EXCEPT !.kind = "add", !.menu = "Admin Portal",
                             !.password = password, !.form = <<form>>]
    IN /\ Authenticated(password)
       /\ IF FormAccepted(form)
          THEN IF CanOpenForWrite(save_path)
               THEN /\ seq < MaxSeq
                    /\ files' = write_file(files, save_path, form.photo[1].data)
                    /\ employees' = added
                    /\ seq' = added[Len(added)].id
                    /\ assigned' = assigned \cup {added[Len(added)].id}
                    /\ shown' = {MsgAuthOk, MsgAdded} \cup RerunMessages(added)
                    /\ op' = [base EXCEPT !.accepted = TRUE, !.wrote = TRUE]
               ELSE /\ shown' = {MsgAuthOk, MsgException}
                    /\ op' = [base EXCEPT !.accepted = TRUE]
                    /\ UNCHANGED <<employees, seq, files, assigned>>
          ELSE /\ shown' = {MsgAuthOk, MsgRequired}
                              \cup RemoveTabMessages(employees)
               /\ op' = base
               /\ UNCHANGED <<employees, seq, files, assigned>>
       /\ UNCHANGED <<displayed, fileFailure>>

\* the effect of one call of delete_employee on the store
ApplyDelete(d) ==
    /\ employees' = d.employees
    /\ files' = d.files
    /\ fileFailure' = (fileFailure \/ d.rmFailed)
    /\ UNCHANGED <<seq, displayed, assigned>>

\* menu == "Admin Portal", authenticated, "Delete Selected Employee" clicked
AdminRemove(password, selected_emp_label, removeFails) ==
    LET df == get_all_employees(employees)
        emp_options == EmpOptions(df)
        emp_id == emp_options[selected_emp_label]
        d == delete_employee(employees, files, emp_id, removeFails)
    IN /\ Authenticated(password)
       /\ df # <<>>
       /\ selected_emp_label \in DOMAIN emp_options
       /\ ApplyDelete(d)
       /\ shown' = {MsgAuthOk, MsgDeleted}
                       \cup (IF d.warned THEN {MsgCouldNotDelete} ELSE {})
                       \cup RerunMessages(d.employees)
       /\ op' = [NoOp EXCEPT !.kind = "remove", !.menu = "Admin Portal",
                             !.password = password,
                             !.selected = selected_emp_label,
                             !.emp_id = emp_id, !.found = d.found,
                             !.hadFile = d.hadFile, !.rmFailed = d.rmFailed]

\* delete_employee(emp_id) called with an arbitrary id
DeleteEmployeeCall(emp_id, removeFails) ==
    LET d == delete_employee(employees, files, emp_id, removeFails)
    IN /\ ApplyDelete(d)
       /\ shown' = IF d.warned THEN {MsgCouldNotDelete} ELSE {}
       /\ op' = [NoOp EXCEPT !.kind = "delete", !.emp_id = emp_id,
                             !.found = d.found, !.hadFile = d.hadFile,
                             !.rmFailed = d.rmFailed]

Labels == {Label(employees[i]) : i \in 1..Len(employees)}

Next ==
    \/ \E search \in Searches : PublicView(search)
    \/ \E password \in Passwords : AdminDenied(password)
    \/ \E password \in Passwords : AdminIdle(password)
    \/ \E password \in Passwords, form \in Forms : AdminAdd(password, form)
    \/ \E password \in Passwords, l \in Labels, removeFails \in BOOLEAN :
           AdminRemove(password, l, removeFails)
    \/ \E emp_id \in EmpIds, removeFails \in BOOLEAN :
           DeleteEmployeeCall(emp_id, removeFails)

Spec == Init /\ [][Next]_vars

----------------------------------------------------------------------------
(* Properties *)

Rows(emps) == {emps[i] : i \in 1..Len(emps)}

PhotoPaths(emps) == {emps[i].photo_path : i \in 1..Len(emps)}

StoreUnchanged == employees' = employees /\ files' = files /\ seq' = seq

\* q occurs in text as a literal substring, letter case ignored
ContainsIgnoringCase(text, q) ==
    \E i \in 0..(Len(text) - Len(q)) :
        \A j \in 1..Len(q) : Lower(q[j]) = Lower(text[i + j])

\* C1: an Add submitted while authenticated with name, email and photo all
\* present adds exactly one row, keeps every earlier row as it was, and the
\* new row carries the submitted name, email, phone, domain and linkedin.
C1_AddInsertsSubmittedRow ==
    [][(op'.kind = "add" /\ op'.form[1].name # <<>>
            /\ op'.form[1].email # <<>> /\ op'.form[1].photo # <<>>)
       => LET f == op'.form[1]
              new == employees'[Len(employees')]
          IN /\ Len(employees') = Len(employees) + 1
             /\ SubSeq(employees', 1, Len(employees)) = employees
             /\ new.name = f.name
             /\ new.email = f.email
             /\ new.phone = f.phone
             /\ new.domain = f.domain
             /\ new.linkedin = f.linkedin]_vars

\* C2: delete_employee(id) for an id in the store removes exactly one row,
\* the one with that id, keeps every other row as it was, and no listing
\* made afterwards holds an id that was deleted.
C2_DeleteRemovesExactlyThatRow ==
    [][/\ (op'.kind \in {"delete", "remove"} /\ op'.emp_id \in Ids(employees))
          => /\ Len(employees') = Len(employees) - 1
             /\ op'.emp_id \notin Ids(get_all_employees(employees'))
             /\ \A r \in Rows(employees) :
                    r.id # op'.emp_id => r \in Rows(employees')
       /\ \A id \in assigned \ Ids(employees) :
              id \notin Ids(get_all_employees(employees'))]_vars

C2_Witness ==
    /\ op.kind = "delete"
    /\ op.found
    /\ employees # <<>>
    /\ op.emp_id \in assigned \ Ids(employees)

\* C3: delete_employee(id) for an id that is not in the store raises nothing,
\* warns of nothing, and leaves the rows and the photo files as they were.
C3_DeleteAbsentIdIsNoOp ==
    [][(op'.kind = "delete" /\ op'.emp_id \notin Ids(employees))
       => /\ employees' = employees
          /\ files' = files
          /\ shown' \cap {MsgException, MsgCouldNotDelete} = {}]_vars

C3_Witness ==
    /\ op.kind = "delete"
    /\ ~op.found
    /\ employees # <<>>
    /\ DOMAIN files # {}

\* C4: an Add submitted with the name, the email or the photo missing is
\* rejected: the error message is shown, no row is inserted and no photo is
\* written.
C4_IncompleteAddRejected ==
    [][(op'.kind = "add"
            /\ (op'.form[1].name = <<>> \/ op'.form[1].email = <<>>
                    \/ op'.form[1].photo = <<>>))
       => /\ MsgRequired \in shown'
          /\ MsgAdded \notin shown'
          /\ StoreUnchanged]_vars

C4_Witness ==
    /\ op.kind = "add"
    /\ op.form[1].name # <<>>
    /\ op.form[1].email # <<>>
    /\ op.form[1].photo = <<>>
    /\ MsgRequired \in shown
    /\ employees # <<>>

\* C5: the ids of the current rows are pairwise different, and every newly
\* inserted row gets an id larger than every id assigned before it, so the
\* id of a deleted row is never given out again.
C5_IdsUniqueAndNeverReused ==
    [][/\ \A i, j \in 1..Len(employees') :
              i # j => employees'[i].id # employees'[j].id
       /\ \A id \in Ids(employees') \ Ids(employees) :
              \A a \in assigned : id > a]_vars

\* the row with the largest id was deleted, which emptied the table, and a
\* row was added afterwards
C5_Witness ==
    /\ op.kind = "add"
    /\ Len(employees) = 1
    /\ assigned \ Ids(employees) # {}
    /\ \A a \in assigned \ Ids(employees) : employees[1].id > a

\* C6: the Public View draws exactly the rows whose name or domain holds the
\* query as a literal substring, letter case ignored; an empty query draws
\* every row.
C6_SearchIsLiteralSubstring ==
    op.kind = "public"
    => LET want == SelectSeq(employees,
                       LAMBDA r : \/ op.search = <<>>
                                  \/ ContainsIgnoringCase(r.name, op.search)
                                  \/ ContainsIgnoringCase(r.domain, op.search))
       IN displayed = [i \in 1..Len(want) |-> want[i].id]

\* C7: a run changes the store only under the Admin Portal with the password
\* equal to the admin password; a wrong password shows the error, an empty
\* one the prompt and no error, and neither they nor the Public View change
\* the store.
C7_OnlyAuthenticatedAdminChangesStore ==
    [][op'.menu # ""
       => /\ ~StoreUnchanged
              => op'.menu = "Admin Portal" /\ op'.password = ADMIN_PASSWORD
          /\ (op'.menu = "Admin Portal" /\ op'.password # ADMIN_PASSWORD)
              => /\ StoreUnchanged
                 /\ op'.password # "" => shown' = {MsgIncorrect}
                 /\ op'.password = "" => shown' = {MsgEnterPassword}
          /\ op'.menu = "Public View" => StoreUnchanged]_vars

C7_Witness ==
    /\ op.kind = "denied"
    /\ op.password = "Admin"
    /\ shown = {MsgIncorrect}
    /\ employees # <<>>
    /\ DOMAIN files # {}

\* C8: the Remove tab offers every current employee as an option of its
\* own, and deleting the selected option deletes the row of the employee the
\* option was offered for and no other row.
C8_EveryEmployeeHasOwnOption ==
    [][/\ Cardinality(DOMAIN EmpOptions(employees')) = Len(employees')
       /\ op'.kind = "remove"
          => \A i \in 1..Len(employees) :
                 IF Label(employees[i]) = op'.selected
                 THEN employees[i] \notin Rows(employees')
                 ELSE employees[i] \in Rows(employees')]_vars

\* C9: when delete_employee(id) finds the row and its photo file and the
\* file cannot be deleted, a warning is shown, nothing is raised, the row is
\* removed all the same and the file stays.
C9_FailedFileDeletionIsNonFatal ==
    [][(op'.kind \in {"delete", "remove"} /\ op'.rmFailed)
       => /\ op'.emp_id \in Ids(employees)
          /\ MsgCouldNotDelete \in shown'
          /\ MsgException \notin shown'
          /\ op'.emp_id \notin Ids(employees')
          /\ Len(employees') = Len(employees) - 1
          /\ files' = files]_vars

C9_Witness ==
    /\ op.kind = "delete"
    /\ op.rmFailed
    /\ MsgCouldNotDelete \in shown
    /\ op.emp_id \notin Ids(employees)
    /\ DOMAIN files \ PhotoPaths(employees) # {}

\* C10: as long as no file deletion has failed, every file of the photo
\* folder is the photo_path of a current row.  (A refused write creates no
\* file, so runs with refused writes are covered as well.)
C10_NoOrphanedPhotos ==
    ~fileFailure => DOMAIN files \subseteq PhotoPaths(employees)

\* two Adds have derived the same file name and the file is in the folder
C10_Witness ==
    /\ ~fileFailure
    /\ Len(employees) >= 2
    /\ employees[1].photo_path = employees[2].photo_path
    /\ employees[1].photo_path \in DOMAIN files
====
